---- MODULE Spec2Model ----
(***************************************************************************)
(* Model of the cadence-backend habit routes (src/routes/habitRoutes.ts).  *)
(*                                                                         *)
(* Every handler talks to PostgreSQL through `pool.query(...)`: each call  *)
(* checks a client out of the connection pool, runs ONE statement on it    *)
(* and puts the client back.  The model therefore has three layers:        *)
(*   - the store: the committed relations habits and activity_logs, and,   *)
(*     per connection, the uncommitted writes of its open transaction;     *)
(*   - the pool: which client serves which statement;                      *)
(*   - the handlers: one request per slot, one step per awaited statement. *)
(***************************************************************************)
EXTENDS Integers, Sequences, FiniteSets, TLC

\* ------------------------------------------------------------------ bounds
MaxHabits == 2
MaxDate == 2
PoolMax == 2
MaxInFlight == 2
MaxRequests == 2

\* --------------------------------------------------------------- constants
\* JavaScript undefined and JSON/SQL null in a string position (name, color)
Undefined == "undefined"
Null == "null"
\* JSON/SQL null in a date position; calendar days are 1..MaxDate
NullDate == 0
\* parseInt's NaN
NaN == [nan |-> TRUE, val |-> 0]
Num(n) == [nan |-> FALSE, val |-> n]
\* an absent row of habits
NoRow == [present |-> FALSE, name |-> Null, color |-> Null]
Row(name, color) == [present |-> TRUE, name |-> name, color |-> color]
\* a transaction's pending write on one habits row: none, delete, or new contents
Same == [kind |-> "same", name |-> Null, color |-> Null]
Gone == [kind |-> "del", name |-> Null, color |-> Null]
Put(name, color) == [kind |-> "row", name |-> name, color |-> color]
NoJob == <<0, 0>>

HabitIds == 1..MaxHabits
Dates == 1..MaxDate
LogKeys == HabitIds \X Dates
Slots == 1..MaxInFlight
Clients == 1..PoolMax

\* ------------------------------------------------------------ pure helpers
Digits == {"0", "1", "2", "3", "4", "5", "6", "7", "8", "9"}

DigitVal(ch) ==
  CASE ch = "0" -> 0 [] ch = "1" -> 1 [] ch = "2" -> 2 [] ch = "3" -> 3
    [] ch = "4" -> 4 [] ch = "5" -> 5 [] ch = "6" -> 6 [] ch = "7" -> 7
    [] ch = "8" -> 8 [] ch = "9" -> 9

RECURSIVE LeadingDigits(_, _)
\* value of the longest digit prefix of s, continuing from acc
LeadingDigits(s, acc) ==
  IF s = <<>> \/ Head(s) \notin Digits THEN acc
  ELSE LeadingDigits(Tail(s), 10 * acc + DigitVal(Head(s)))

\* JavaScript parseInt on a path parameter given as a sequence of characters:
\* optional sign, then the longest run of digits; NaN when there is none.
parseInt(s) ==
  LET neg == s # <<>> /\ Head(s) = "-"
      body == IF s # <<>> /\ Head(s) \in {"-", "+"} THEN Tail(s) ELSE s
  IN IF body = <<>> \/ Head(body) \notin Digits THEN NaN
     ELSE IF neg THEN Num(0 - LeadingDigits(body, 0)) ELSE Num(LeadingDigits(body, 0))

\* the guard `isNaN(id) || id <= 0` of the three id-taking handlers
InvalidId(id) == id.nan \/ id.val <= 0

EmptyBag == [k \in LogKeys |-> 0]

BagAdd(a, b) == [k \in LogKeys |-> a[k] + b[k]]

BagSub(a, b) == [k \in LogKeys |-> IF a[k] >= b[k] THEN a[k] - b[k] ELSE 0]

\* the rows of bag b that belong to habit h
BagOf(b, h) == [k \in LogKeys |-> IF k[1] = h THEN b[k] ELSE 0]

BagWithout(b, h) == [k \in LogKeys |-> IF k[1] = h THEN 0 ELSE b[k]]

BagSize(b, h) ==
  LET RECURSIVE Sum(_)
      Sum(d) == IF d = 0 THEN 0 ELSE (IF h \in HabitIds THEN b[<<h, d>>] ELSE 0) + Sum(d - 1)
  IN Sum(MaxDate)

RECURSIVE Repeat(_, _)
Repeat(x, n) == IF n = 0 THEN <<>> ELSE <<x>> \o Repeat(x, n - 1)

\* array_agg(log_date ORDER BY log_date) over the rows of habit h in bag b
RECURSIVE AggFrom(_, _, _)
AggFrom(b, h, d) ==
  IF d > MaxDate THEN <<>> ELSE Repeat(d, b[<<h, d>>]) \o AggFrom(b, h, d + 1)


\* node-postgres hands a DATE column to JavaScript as a Date at LOCAL midnight;
\* an instant is counted in hours since the epoch, tzv hours east of UTC.
pgParseDate(d, tzv) == IF d = NullDate THEN NullDate ELSE d * 24 - tzv

\* logDate.toISOString().split('T')[0]: the UTC calendar day of an instant
toISODate(t) == t \div 24

\* JSON date strings of the request body reach PostgreSQL unchanged and are
\* parsed there as calendar days: no time zone is involved on the way in.

\* ---------------------------------------------------------------- variables
VARIABLES habits, logs, nextId, conn, idle, queue, req, last, nreq, tz,
          up,       \* the store accepts statements (FALSE once the connection is lost)
          deleted   \* history: the ids whose DELETE /:id has been answered 200

vars == <<habits, logs, nextId, conn, idle, queue, req, last, nreq, tz, up, deleted>>

dbvars == <<habits, logs>>

TZOffsets == {0, 2}

\* ------------------------------------------------------------------- store
\* Schema (test setup): habits(id SERIAL PRIMARY KEY, name NOT NULL, color),
\* activity_logs(id SERIAL, habit_id NOT NULL REFERENCES habits(id),
\* log_date DATE NOT NULL); the foreign key has no ON DELETE action.

NoOverlay == [h \in HabitIds |-> Same]

FreshConn ==
  [st |-> "none", txn |-> "none", job |-> NoJob, hov |-> NoOverlay,
   lDel |-> EmptyBag, lIns |-> EmptyBag, ks |-> {}]

\* end of a transaction on a connection: its uncommitted writes and locks go
EndTxn(cn) ==
  [cn EXCEPT !.txn = "none", !.hov = NoOverlay, !.lDel = EmptyBag,
             !.lIns = EmptyBag, !.ks = {}]

\* what a statement running on connection c sees (READ COMMITTED): the
\* committed rows, overlaid with the writes of c's own open transaction
HView(c) ==
  [h \in HabitIds |->
     CASE conn[c].hov[h].kind = "same" -> habits[h]
       [] conn[c].hov[h].kind = "del" -> NoRow
       [] conn[c].hov[h].kind = "row" -> Row(conn[c].hov[h].name, conn[c].hov[h].color)]

LView(c) == BagAdd(BagSub(logs, conn[c].lDel), conn[c].lIns)

HabitVisible(c, h) == h \in HabitIds /\ HView(c)[h].present

\* another connection's open transaction has updated or deleted the committed row h
RowLockedByOther(c, h) ==
  /\ h \in HabitIds
  /\ habits[h].present
  /\ \E o \in Clients \ {c} : conn[o].hov[h].kind # "same"

RowDeletedByOther(c, h) ==
  /\ h \in HabitIds
  /\ habits[h].present
  /\ \E o \in Clients \ {c} : conn[o].hov[h].kind = "del"

LogsLockedByOther(c, h) ==
  /\ h \in HabitIds
  /\ \E o \in Clients \ {c} : BagSize(conn[o].lDel, h) > 0

KeySharedByOther(c, h) == \E o \in Clients \ {c} : h \in conn[o].ks

\* A statement is a record [kind, h, d, name, color].
Stmt(kind, h, d, name, color) == [kind |-> kind, h |-> h, d |-> d, name |-> name, color |-> color]

\* a statement waits while a row it must lock is locked by another transaction
Blocked(c, s) ==
  /\ conn[c].txn # "aborted"
  /\ CASE s.kind = "DELETE_LOGS" -> LogsLockedByOther(c, s.h)
       [] s.kind = "INSERT_LOG" -> s.d # NullDate /\ RowDeletedByOther(c, s.h)
       [] s.kind = "UPDATE_HABIT" -> RowLockedByOther(c, s.h)
       [] s.kind = "DELETE_HABIT" ->
            RowLockedByOther(c, s.h) \/ KeySharedByOther(c, s.h) \/ LogsLockedByOther(c, s.h)
       [] OTHER -> FALSE

\* one result row of the aggregation query: LEFT JOIN gives a habit without
\* logs one row whose log_date is NULL, so array_agg yields {NULL}
AggRow(c, h) ==
  [id |-> h, name |-> HView(c)[h].name, color |-> HView(c)[h].color,
   activityLog |-> IF BagSize(LView(c), h) = 0 THEN <<NullDate>>
                   ELSE [i \in 1..BagSize(LView(c), h) |->
                           pgParseDate(AggFrom(LView(c), h, 1)[i], tz)]]

RECURSIVE AggRows(_, _)
\* GROUP BY habits.id ORDER BY habits.id, from id h upwards
AggRows(c, h) ==
  IF h > MaxHabits THEN <<>>
  ELSE (IF HView(c)[h].present THEN <<AggRow(c, h)>> ELSE <<>>) \o AggRows(c, h + 1)

Result(res, rows, hs, ls, nid, cn) ==
  [res |-> res, rows |-> rows, habits |-> hs, logs |-> ls, nextId |-> nid, cn |-> cn]

\* an error inside an open transaction aborts it; in autocommit it changes nothing
Fail(c) ==
  Result("err", <<>>, habits, logs, nextId,
         IF conn[c].txn = "open" THEN [conn[c] EXCEPT !.txn = "aborted"] ELSE conn[c])

Ok(c, rows) == Result("ok", rows, habits, logs, nextId, conn[c])

InTxn(c) == conn[c].txn = "open"

ExecBegin(c) ==
  Result("ok", <<>>, habits, logs, nextId,
         IF conn[c].txn = "none" THEN [conn[c] EXCEPT !.txn = "open"] ELSE conn[c])

ExecCommit(c) ==
  IF InTxn(c) THEN Result("ok", <<>>, HView(c), LView(c), nextId, EndTxn(conn[c]))
  ELSE Result("ok", <<>>, habits, logs, nextId, EndTxn(conn[c]))

ExecRollback(c) == Result("ok", <<>>, habits, logs, nextId, EndTxn(conn[c]))

ExecDeleteLogs(c, h) ==
  IF h \notin HabitIds THEN Ok(c, <<>>)
  ELSE IF InTxn(c)
  THEN Result("ok", <<>>, habits, logs, nextId,
              [conn[c] EXCEPT !.lDel = BagAdd(BagWithout(@, h), BagOf(logs, h)),
                              !.lIns = BagWithout(@, h)])
  ELSE Result("ok", <<>>, habits, BagWithout(logs, h), nextId, conn[c])

ExecInsertLog(c, h, d) ==
  IF d = NullDate \/ ~HabitVisible(c, h) THEN Fail(c)
  ELSE IF InTxn(c)
  THEN Result("ok", <<>>, habits, logs, nextId,
              [conn[c] EXCEPT !.lIns[<<h, d>>] = @ + 1, !.ks = @ \cup {h}])
  ELSE Result("ok", <<>>, habits, [logs EXCEPT ![<<h, d>>] = @ + 1], nextId, conn[c])

ExecSelectOne(c, h) ==
  Ok(c, IF HabitVisible(c, h) THEN <<AggRow(c, h)>> ELSE <<>>)

ExecSelectAll(c) == Ok(c, AggRows(c, 1))

NewHabitRow(name, color) == Row(name, IF color = Undefined THEN Null ELSE color)

ExecInsertHabit(c, name, color) ==
  LET row == NewHabitRow(name, color)
      out == <<[id |-> nextId, name |-> row.name, color |-> row.color]>>
  IN
  IF name \in {Null, Undefined} THEN Fail(c)
  ELSE IF InTxn(c)
  THEN Result("ok", out, habits, logs, nextId + 1, [conn[c] EXCEPT !.hov[nextId] = Put(row.name, row.color)])
  ELSE Result("ok", out, [habits EXCEPT ![nextId] = row], logs, nextId + 1, conn[c])

UpdatedRow(old, name, color) ==
  Row(IF name = Undefined THEN old.name ELSE name,
      IF color = Undefined THEN old.color ELSE color)

ExecUpdateHabit(c, h, name, color) ==
  IF ~HabitVisible(c, h) THEN Ok(c, <<>>)
  ELSE IF name = Null THEN Fail(c)
  ELSE IF InTxn(c)
  THEN Result("ok", <<>>, habits, logs, nextId,
              [conn[c] EXCEPT !.hov[h] = Put(UpdatedRow(HView(c)[h], name, color).name,
                                             UpdatedRow(HView(c)[h], name, color).color)])
  ELSE Result("ok", <<>>, [habits EXCEPT ![h] = UpdatedRow(@, name, color)], logs, nextId, conn[c])

\* variant: the DELETE as it would run were habit_id not declared a foreign key
ExecDeleteHabitNoFk(c, h) ==
  LET out == <<[id |-> h, name |-> HView(c)[h].name, color |-> HView(c)[h].color]>>
  IN IF ~HabitVisible(c, h) THEN Ok(c, <<>>)
     ELSE IF InTxn(c)
     THEN Result("ok", out, habits, logs, nextId,
                 [conn[c] EXCEPT !.hov[h] = IF habits[h].present THEN Gone ELSE Same])
     ELSE Result("ok", out, [habits EXCEPT ![h] = NoRow], logs, nextId, conn[c])

ExecDeleteHabit(c, h) ==
  LET out == <<[id |-> h, name |-> HView(c)[h].name, color |-> HView(c)[h].color]>>
  IN IF ~HabitVisible(c, h) THEN Ok(c, <<>>)
     ELSE IF BagSize(LView(c), h) > 0 THEN Fail(c)
     ELSE IF InTxn(c)
     THEN Result("ok", out, habits, logs, nextId,
                 [conn[c] EXCEPT !.hov[h] = IF habits[h].present THEN Gone ELSE Same])
     ELSE Result("ok", out, [habits EXCEPT ![h] = NoRow], logs, nextId, conn[c])

\* the connection is lost: whatever the statement, the promise of pool.query
\* rejects, and the session (with its transaction) is gone
ConnectionError(c) == Result("err", <<>>, habits, logs, nextId, EndTxn(conn[c]))

\* pool.query(text, params) once a client has been checked out for it
Exec(c, s) ==
  IF ~up THEN ConnectionError(c)
  ELSE IF s.kind = "COMMIT" THEN ExecCommit(c)
  ELSE IF s.kind = "ROLLBACK" THEN ExecRollback(c)
  ELSE IF conn[c].txn = "aborted" THEN Fail(c)
  ELSE CASE s.kind = "BEGIN" -> ExecBegin(c)
         [] s.kind = "DELETE_LOGS" -> ExecDeleteLogs(c, s.h)
         [] s.kind = "INSERT_LOG" -> ExecInsertLog(c, s.h, s.d)
         [] s.kind = "SELECT_ONE" -> ExecSelectOne(c, s.h)
         [] s.kind = "SELECT_ALL" -> ExecSelectAll(c)
         [] s.kind = "INSERT_HABIT" -> ExecInsertHabit(c, s.name, s.color)
         [] s.kind = "UPDATE_HABIT" -> ExecUpdateHabit(c, s.h, s.name, s.color)
         [] s.kind = "DELETE_HABIT" -> ExecDeleteHabit(c, s.h)


\* -------------------------------------------------------------------- pool
\* `pool` is a node-postgres Pool: pool.query checks out the most recently
\* released idle client, else opens a new one while fewer than PoolMax exist,
\* else waits in the pending queue; the client goes back when the statement's
\* result arrives.  A client keeps its session (an open or aborted
\* transaction) across check-outs.  A pool value is [conn, idle, queue].

Pool(cs, is, qs) == [conn |-> cs, idle |-> is, queue |-> qs]

FrontOf(q) == SubSeq(q, 1, Len(q) - 1)

LowestUnused(cs) == CHOOSE c \in Clients : cs[c].st = "none" /\ \A o \in Clients : cs[o].st = "none" => c <= o

\* check a client out for job j, or queue the job
Acquire(p, j) ==
  IF p.idle # <<>>
  THEN Pool([p.conn EXCEPT ![p.idle[Len(p.idle)]].st = "busy", ![p.idle[Len(p.idle)]].job = j],
            FrontOf(p.idle), p.queue)
  ELSE IF \E c \in Clients : p.conn[c].st = "none"
  THEN Pool([p.conn EXCEPT ![LowestUnused(p.conn)].st = "busy", ![LowestUnused(p.conn)].job = j],
            p.idle, p.queue)
  ELSE Pool(p.conn, p.idle, Append(p.queue, j))

RECURSIVE AcquireAll(_, _)
AcquireAll(p, js) == IF js = <<>> THEN p ELSE AcquireAll(Acquire(p, Head(js)), Tail(js))

\* give client c back: the longest-waiting job takes it over, else it idles
Release(p, c) ==
  IF p.queue # <<>>
  THEN Pool([p.conn EXCEPT ![c].job = Head(p.queue)], p.idle, Tail(p.queue))
  ELSE Pool([p.conn EXCEPT ![c].st = "idle", ![c].job = NoJob], Append(p.idle, c), p.queue)

Serving(c, j) == conn[c].st = "busy" /\ conn[c].job = j

\* ---------------------------------------------------------------- requests
NoBody == [rows |-> <<>>, message |-> ""]

\* the request that was answered most recently while this one was in flight
NoPeer == [op |-> "none", id |-> 0, dates |-> <<>>, status |-> 0]

FreeReq ==
  [op |-> "none", pc |-> "free", path |-> <<>>, id |-> 0, name |-> Undefined, color |-> Undefined,
   dates |-> <<>>, hasDates |-> FALSE, ins |-> <<>>, status |-> 0, body |-> NoBody,
   pre |-> [habits |-> [h \in HabitIds |-> NoRow], logs |-> EmptyBag, nextId |-> 0],
   alone |-> FALSE, peer |-> NoPeer, rowCount |-> 0]

NotNullDate(t) == t # NullDate

\* .filter(logDate => logDate !== null) on every row of a result
FilterNulls(rows) ==
  [i \in 1..Len(rows) |-> [rows[i] EXCEPT !.activityLog = SelectSeq(@, NotNullDate)]]

HasNull(sq) == \E i \in 1..Len(sq) : sq[i] = NullDate

\* .map(logDate => logDate.toISOString().split('T')[0]) on the single row
IsoDates(rows) ==
  [i \in 1..Len(rows) |->
     [rows[i] EXCEPT !.activityLog = [k \in 1..Len(@) |-> toISODate(@[k])]]]

Answer(status, rows, message) ==
  [pc |-> "done", status |-> status, body |-> [rows |-> rows, message |-> message], issue |-> <<>>]

\* the async handler's promise rejects: express 4 does not look at it, so
\* the handler is over and no response has been or will be sent
NoResponse == [pc |-> "done", status |-> 0, body |-> NoBody, issue |-> <<>>]

Go(r, pc) == [pc |-> pc, status |-> 0, body |-> NoBody, issue |-> <<<<r, 0>>>>]

InsertJobs(r, n) == [k \in 1..n |-> <<r, k>>]

\* the statement a request is awaiting at pc
CurStmt(r) ==
  CASE req[r].pc = "selectAll" -> Stmt("SELECT_ALL", 0, NullDate, Undefined, Undefined)
    [] req[r].pc = "insertHabit" -> Stmt("INSERT_HABIT", 0, NullDate, req[r].name, req[r].color)
    [] req[r].pc = "updateHabit" -> Stmt("UPDATE_HABIT", req[r].id, NullDate, req[r].name, req[r].color)
    [] req[r].pc = "selectOne" -> Stmt("SELECT_ONE", req[r].id, NullDate, Undefined, Undefined)
    [] req[r].pc = "deleteHabit" -> Stmt("DELETE_HABIT", req[r].id, NullDate, Undefined, Undefined)
    [] req[r].pc = "begin" -> Stmt("BEGIN", 0, NullDate, Undefined, Undefined)
    [] req[r].pc = "deleteLogs" -> Stmt("DELETE_LOGS", req[r].id, NullDate, Undefined, Undefined)
    [] req[r].pc = "commit" -> Stmt("COMMIT", 0, NullDate, Undefined, Undefined)
    [] req[r].pc = "rollback" -> Stmt("ROLLBACK", 0, NullDate, Undefined, Undefined)

\* GET /: what the handler does with the result of the aggregation query
ListCont(r, R) ==
  IF R.res = "ok" THEN Answer(200, FilterNulls(R.rows), "")
  ELSE Answer(500, <<>>, "err.message")

\* POST /: after the INSERT ... RETURNING *
CreateCont(r, R) ==
  IF R.res = "ok"
  THEN Answer(201, <<[id |-> R.rows[1].id, name |-> R.rows[1].name,
                      color |-> R.rows[1].color, activityLog |-> <<>>]>>, "")
  ELSE Answer(500, <<>>, "err.message")

\* PATCH /:id: after the UPDATE, then after the re-read
UpdateCont(r, R) ==
  IF R.res # "ok" THEN Answer(500, <<>>, "Server error")
  ELSE IF req[r].pc = "updateHabit" THEN Go(r, "selectOne")
  ELSE IF R.rows = <<>> THEN Answer(404, <<>>, "Habit not found")
  ELSE Answer(200, FilterNulls(R.rows), "")

\* DELETE /:id: after the DELETE ... RETURNING *
DeleteCont(r, R) ==
  IF R.res # "ok" THEN Answer(500, <<>>, "Server error")
  ELSE IF R.rows = <<>> THEN Answer(404, <<>>, "Habit not found")
  ELSE Answer(200, <<>>, "Habit deleted successfully")

\* PATCH /:id/activity: the try block statement by statement; every throw
\* lands in the catch block, which issues ROLLBACK and then answers 500
ReplaceCont(r, R) ==
  IF req[r].pc = "rollback"
  THEN (IF R.res = "ok" THEN Answer(500, <<>>, "Server error") ELSE NoResponse)
  ELSE IF R.res # "ok" THEN Go(r, "rollback")
  ELSE CASE req[r].pc = "begin" -> Go(r, "deleteLogs")
         [] req[r].pc = "deleteLogs" ->
              IF ~req[r].hasDates THEN Go(r, "rollback")
              ELSE IF req[r].dates = <<>> THEN Go(r, "commit")
              ELSE [pc |-> "inserts", status |-> 0, body |-> NoBody,
                    issue |-> InsertJobs(r, Len(req[r].dates))]
         [] req[r].pc = "commit" -> Go(r, "selectOne")
         [] req[r].pc = "selectOne" ->
              IF R.rows = <<>> THEN Answer(404, <<>>, "Habit not found")
              ELSE IF HasNull(R.rows[1].activityLog) THEN Go(r, "rollback")
              ELSE Answer(200, IsoDates(R.rows), "")

Cont(r, R) ==
  CASE req[r].op = "list" -> ListCont(r, R)
    [] req[r].op = "create" -> CreateCont(r, R)
    [] req[r].op = "update" -> UpdateCont(r, R)
    [] req[r].op = "delete" -> DeleteCont(r, R)
    [] req[r].op = "replace" -> ReplaceCont(r, R)


\* ------------------------------------------------------------------ inputs
PathIds ==
  { <<"1">>, <<"2">>, <<"0">>, <<"-", "1">>, <<"o", "r", "a", "n", "g", "e">> }

CreateNames == {Undefined, "", "Drawing"}
CreateColors == {Undefined, "#d6b4fc"}
UpdateNames == {Undefined, "", "Coding"}
UpdateColors == {Undefined, "#d7e2f3"}

\* activityData bodies: date sequences in any order, and sequences with an
\* element PostgreSQL rejects for log_date (written NullDate)
DateSeqs == { <<>>, <<1>>, <<MaxDate, 1>>, <<NullDate, 1>> }

\* path parameters that start like a number and go on as text
TrailingTextPaths == { <<"1", "x">> }

\* ----------------------------------------------------------------- actions
HasJobsIn(p, r) ==
  \/ \E c \in Clients : p.conn[c].st = "busy" /\ p.conn[c].job[1] = r
  \/ \E i \in 1..Len(p.queue) : p.queue[i][1] = r

\* what stays in slot r once its response is out: nothing, unless INSERTs of
\* its Promise.all are still in flight
Leftover(p, r, rq) ==
  IF HasJobsIn(p, r)
  THEN [FreeReq EXCEPT !.op = rq.op, !.pc = "done", !.id = rq.id, !.dates = rq.dates]
  ELSE FreeReq

\* the handler of r has run on to K's await or answer; `last` shows the
\* response in the step that sends it
Advance(r, p, rq, K) ==
  LET nrq == [rq EXCEPT !.pc = K.pc, !.status = K.status, !.body = K.body]
  IN /\ conn' = p.conn
     /\ idle' = p.idle
     /\ queue' = p.queue
     /\ last' = IF K.pc = "done" /\ rq.pc # "done" THEN nrq ELSE FreeReq
     /\ deleted' = IF K.pc = "done" /\ rq.pc # "done" /\ rq.op = "delete" /\ K.status = 200
                   THEN deleted \cup {rq.id} ELSE deleted
     /\ req' = [o \in Slots |->
                  IF o = r THEN (IF K.pc = "done" THEN Leftover(p, r, nrq) ELSE nrq)
                  ELSE IF rq.pc = "free" /\ req[o].pc # "free"
                  THEN [req[o] EXCEPT !.alone = FALSE]
                  ELSE IF K.pc = "done" /\ rq.pc # "done" /\ req[o].pc \notin {"free", "done"}
                  THEN [req[o] EXCEPT !.peer = [op |-> rq.op, id |-> rq.id,
                                                dates |-> rq.dates, status |-> K.status]]
                  ELSE req[o]]

\* a request arrives in slot r: the handler runs up to its first await (K)
Launch(r, fields, K) ==
  /\ req[r].pc = "free"
  /\ \A o \in Slots : req[o].pc = "free" => r <= o
  /\ nreq < MaxRequests
  /\ nreq' = nreq + 1
  /\ Advance(r, AcquireAll(Pool(conn, idle, queue), K.issue),
             [fields EXCEPT !.pre = [habits |-> habits, logs |-> logs, nextId |-> nextId],
                            !.alone = \A o \in Slots : req[o].pc = "free"], K)
  /\ UNCHANGED <<habits, logs, nextId, tz, up>>

BadRequest(message) == Answer(400, <<>>, message)

\* The Start actions draw the request from a menu M of inputs:
\* [paths, createNames, createColors, updateNames, updateColors, dateSeqs, bodies]
\* where bodies says whether the body may lack activityData.
ParsedId(path) == IF InvalidId(parseInt(path)) THEN 0 ELSE parseInt(path).val

PendingCreates == Cardinality({o \in Slots : req[o].pc = "insertHabit"})

\* GET /
StartList(r) ==
  Launch(r, [FreeReq EXCEPT !.op = "list"], Go(r, "selectAll"))

\* variant: POST / testing `name === undefined` instead of `!name`
StartCreateFromUndefinedOnly(r, M) ==
  \E name \in M.createNames, color \in M.createColors :
    /\ nextId + PendingCreates <= MaxHabits
    /\ Launch(r, [FreeReq EXCEPT !.op = "create", !.name = name, !.color = color],
              IF name = Undefined
              THEN BadRequest("Habit name is required")
              ELSE Go(r, "insertHabit"))

\* POST / up to the INSERT
StartCreateFrom(r, M) ==
  \E name \in M.createNames, color \in M.createColors :
    /\ nextId + PendingCreates <= MaxHabits
    /\ Launch(r, [FreeReq EXCEPT !.op = "create", !.name = name, !.color = color],
              IF name \in {Undefined, Null, ""}
              THEN BadRequest("Habit name is required")
              ELSE Go(r, "insertHabit"))

\* PATCH /:id up to the UPDATE
StartUpdateFrom(r, M) ==
  \E path \in M.paths, name \in M.updateNames, color \in M.updateColors :
    Launch(r, [FreeReq EXCEPT !.op = "update", !.path = path, !.id = ParsedId(path),
                              !.name = name, !.color = color],
           IF InvalidId(parseInt(path)) THEN BadRequest("Invalid ID format")
           ELSE IF name = Undefined /\ color = Undefined
           THEN BadRequest("No fields to update were provided")
           ELSE Go(r, "updateHabit"))

\* PATCH /:id/activity up to the BEGIN
StartReplaceFrom(r, M) ==
  \E path \in M.paths, has \in M.bodies, ds \in M.dateSeqs :
    /\ ~has => ds = <<>>
    /\ Launch(r, [FreeReq EXCEPT !.op = "replace", !.path = path, !.id = ParsedId(path),
                                 !.dates = ds, !.hasDates = has,
                                 !.ins = [k \in 1..Len(ds) |-> "run"]],
              IF InvalidId(parseInt(path)) THEN BadRequest("Invalid ID format")
              ELSE Go(r, "begin"))

\* DELETE /:id up to the DELETE
StartDeleteFrom(r, M) ==
  \E path \in M.paths :
    Launch(r, [FreeReq EXCEPT !.op = "delete", !.path = path, !.id = ParsedId(path)],
           IF InvalidId(parseInt(path)) THEN BadRequest("Invalid ID format")
           ELSE Go(r, "deleteHabit"))

FullMenu ==
  [paths |-> PathIds, createNames |-> CreateNames, createColors |-> CreateColors,
   updateNames |-> UpdateNames, updateColors |-> UpdateColors,
   dateSeqs |-> DateSeqs, bodies |-> BOOLEAN]

StartCreate(r) == StartCreateFrom(r, FullMenu)

StartUpdate(r) == StartUpdateFrom(r, FullMenu)

StartReplace(r) == StartReplaceFrom(r, FullMenu)

StartDelete(r) == StartDeleteFrom(r, FullMenu)

\* the store applies result R of the statement on client c, the client goes
\* back to the pool, and the handler of r runs on to its next await (K)
Resume(r, c, R, rq, K) ==
  /\ habits' = R.habits
  /\ logs' = R.logs
  /\ nextId' = R.nextId
  /\ Advance(r, AcquireAll(Release(Pool([conn EXCEPT ![c] = R.cn], idle, queue), c), K.issue),
             rq, K)
  /\ UNCHANGED <<nreq, tz, up>>

\* the rows the UPDATE of PATCH /:id changes when it runs on client c (the
\* handler does not look at the count)
RowCount(c, s) ==
  IF s.kind = "UPDATE_HABIT" /\ Exec(c, s).res = "ok" /\ HabitVisible(c, s.h) THEN 1 ELSE 0

\* the awaited statement of request r completes
Step(r) ==
  \E c \in Clients :
    /\ Serving(c, <<r, 0>>)
    /\ ~Blocked(c, CurStmt(r))
    /\ Resume(r, c, Exec(c, CurStmt(r)),
              [req[r] EXCEPT !.rowCount = IF req[r].pc = "updateHabit"
                                          THEN RowCount(c, CurStmt(r)) ELSE @],
              Cont(r, Exec(c, CurStmt(r))))

InsertStmt(r, k) == Stmt("INSERT_LOG", req[r].id, req[r].dates[k], Undefined, Undefined)

AllInserted(ins) == \A i \in 1..Len(ins) : ins[i] = "ok"

\* one INSERT of the Promise.all completes; Promise.all settles on the first
\* failure or on the last success, and later completions are ignored
InsertCont(r, ins) ==
  IF req[r].pc # "inserts"
  THEN [pc |-> req[r].pc, status |-> req[r].status, body |-> req[r].body, issue |-> <<>>]
  ELSE IF \E i \in 1..Len(ins) : ins[i] = "err" THEN Go(r, "rollback")
  ELSE IF AllInserted(ins) THEN Go(r, "commit")
  ELSE [pc |-> "inserts", status |-> 0, body |-> NoBody, issue |-> <<>>]

InsertDone(r, k) ==
  \E c \in Clients :
    /\ Serving(c, <<r, k>>)
    /\ k >= 1
    /\ ~Blocked(c, InsertStmt(r, k))
    /\ LET R == Exec(c, InsertStmt(r, k))
           ins == IF req[r].pc = "inserts" THEN [req[r].ins EXCEPT ![k] = R.res] ELSE req[r].ins
       IN Resume(r, c, R, [req[r] EXCEPT !.ins = ins], InsertCont(r, ins))

\* idleTimeoutMillis: the pool closes the client that has been idle longest;
\* the server rolls back whatever transaction that session had open
IdleTimeout(c) ==
  /\ idle # <<>>
  /\ c = Head(idle)
  /\ conn' = [conn EXCEPT ![c] = FreshConn]
  /\ idle' = Tail(idle)
  /\ last' = FreeReq
  /\ UNCHANGED <<habits, logs, nextId, queue, req, nreq, tz, up, deleted>>

\* ------------------------------------------------------------ specification
InitRow == Row("Drawing", "#d6b4fc")

\* the database outlives the process: a start finds any consistent contents
InitDBs ==
  { [habits |-> [h \in HabitIds |-> IF h <= n THEN InitRow ELSE NoRow],
     logs |-> [k \in LogKeys |-> IF k[1] <= n /\ k[2] \in ds[k[1]] THEN 1 ELSE 0]] :
    n \in {1, 2}, ds \in {[h \in HabitIds |-> IF h = 1 THEN {1, MaxDate} ELSE {}],
                          [h \in HabitIds |-> IF h = 2 THEN {MaxDate} ELSE {}]} }

Init ==
  /\ \E db \in InitDBs :
       /\ habits = db.habits
       /\ logs = db.logs
       /\ nextId = Cardinality({h \in HabitIds : db.habits[h].present}) + 1
  /\ tz \in TZOffsets
  /\ conn = [c \in Clients |-> FreshConn]
  /\ idle = <<>>
  /\ queue = <<>>
  /\ req = [r \in Slots |-> FreeReq]
  /\ last = FreeReq
  /\ nreq = 0
  /\ up = TRUE
  /\ deleted = {}

Next ==
  \/ \E r \in Slots : StartList(r)
  \/ \E r \in Slots : StartCreate(r)
  \/ \E r \in Slots : StartUpdate(r)
  \/ \E r \in Slots : StartReplace(r)
  \/ \E r \in Slots : StartDelete(r)
  \/ \E r \in Slots : Step(r)
  \/ \E r \in Slots, k \in 1..MaxDate : InsertDone(r, k)
  \/ \E c \in Clients : IdleTimeout(c)

Spec == Init /\ [][Next]_vars

\* The same program under a narrower menu of requests: existing and missing
\* ids, one create, one rename, replacements by zero and by two dates, and by
\* a date followed by an element the store rejects.
CoreMenu ==
  [paths |-> { <<"1">>, <<"2">> }, createNames |-> {"", "Drawing"},
   createColors |-> {"#d6b4fc"}, updateNames |-> {"Coding"}, updateColors |-> {Undefined},
   dateSeqs |-> { <<>>, <<MaxDate, 1>>, <<1, NullDate>> }, bodies |-> {TRUE}]

CoreCreate(r) == StartCreateFrom(r, CoreMenu)

CoreUpdate(r) == StartUpdateFrom(r, CoreMenu)

CoreReplace(r) == StartReplaceFrom(r, CoreMenu)

CoreDelete(r) == StartDeleteFrom(r, CoreMenu)

CoreInit == Init /\ tz = 0

CoreNext ==
  \/ \E r \in Slots : StartList(r)
  \/ \E r \in Slots : CoreCreate(r)
  \/ \E r \in Slots : CoreUpdate(r)
  \/ \E r \in Slots : CoreReplace(r)
  \/ \E r \in Slots : CoreDelete(r)
  \/ \E r \in Slots : Step(r)
  \/ \E r \in Slots, k \in 1..MaxDate : InsertDone(r, k)
  \/ \E c \in Clients : IdleTimeout(c)

CoreSpec == CoreInit /\ [][CoreNext]_vars


\* the connection to the store is lost: every session ends, and the server
\* rolls back what was uncommitted
StoreDown ==
  /\ up
  /\ up' = FALSE
  /\ conn' = [c \in Clients |-> EndTxn(conn[c])]
  /\ last' = FreeReq
  /\ UNCHANGED <<habits, logs, nextId, idle, queue, req, nreq, tz, deleted>>

\* CoreSpec with a store that can become unreachable
FaultNext == CoreNext \/ StoreDown

FaultSpec == CoreInit /\ [][FaultNext]_vars

\* The handlers that issue their statements one after the other (every one
\* but PATCH /:id/activity): all paths of the full menu and one with trailing
\* text, all create bodies of the full menu, one rename.
CrudMenu ==
  [CoreMenu EXCEPT !.paths = PathIds \cup TrailingTextPaths, !.createNames = CreateNames,
                   !.createColors = CreateColors]

CrudCreate(r) == StartCreateFrom(r, CrudMenu)

CrudUpdate(r) == StartUpdateFrom(r, CrudMenu)

CrudDelete(r) == StartDeleteFrom(r, CrudMenu)

CrudNext ==
  \/ \E r \in Slots : StartList(r)
  \/ \E r \in Slots : CrudCreate(r)
  \/ \E r \in Slots : CrudUpdate(r)
  \/ \E r \in Slots : CrudDelete(r)
  \/ \E r \in Slots : Step(r)
  \/ \E c \in Clients : IdleTimeout(c)

CrudSpec == CoreInit /\ [][CrudNext]_vars

\* The life of a habit beyond the first MaxRequests requests: once these have
\* ended and every statement has completed, further requests arrive one at a
\* time.  Renames, deletes, lists, and replacements by a date followed by an
\* element the store rejects.
LifeMenu == [CoreMenu EXCEPT !.dateSeqs = { <<1, NullDate>> }]

LifeUpdate(r) == StartUpdateFrom(r, LifeMenu)

LifeReplace(r) == StartReplaceFrom(r, LifeMenu)

LifeDelete(r) == StartDeleteFrom(r, LifeMenu)

NextRequest ==
  /\ nreq = MaxRequests
  /\ \A r \in Slots : req[r].pc = "free"
  /\ \A c \in Clients : conn[c].job = NoJob
  /\ nreq' = MaxRequests - 1
  /\ last' = FreeReq
  /\ UNCHANGED <<habits, logs, nextId, conn, idle, queue, req, tz, up, deleted>>

LifeNext ==
  \/ \E r \in Slots : StartList(r)
  \/ \E r \in Slots : LifeUpdate(r)
  \/ \E r \in Slots : LifeReplace(r)
  \/ \E r \in Slots : LifeDelete(r)
  \/ \E r \in Slots : Step(r)
  \/ \E r \in Slots, k \in 1..MaxDate : InsertDone(r, k)
  \/ \E c \in Clients : IdleTimeout(c)
  \/ NextRequest

LifeSpec == CoreInit /\ [][LifeNext]_vars

\* ------------------------------------------------------------------ claims
\* `last` is the request answered by the step just taken (FreeReq otherwise),
\* so a predicate on `last` speaks about the store at the moment the
\* response is sent.

Less(a, b) == a < b

\* the rows a date sequence ds stands for, as rows of habit h
SeqBag(h, ds) ==
  [k \in LogKeys |-> IF k[1] = h THEN Cardinality({i \in 1..Len(ds) : ds[i] = k[2]}) ELSE 0]

AllDates(ds) == \A i \in 1..Len(ds) : ds[i] \in Dates

Existed(rq) == rq.id \in HabitIds /\ rq.pre.habits[rq.id].present

\* the stored dates of habit h, ascending, as node-postgres delivers them
StoredLog(ls, h) == [i \in 1..BagSize(ls, h) |-> pgParseDate(AggFrom(ls, h, 1)[i], tz)]

RECURSIVE StoredList(_, _, _)
StoredList(hs, ls, h) ==
  IF h > MaxHabits THEN <<>>
  ELSE (IF hs[h].present
        THEN <<[id |-> h, name |-> hs[h].name, color |-> hs[h].color,
                activityLog |-> StoredLog(ls, h)]>>
        ELSE <<>>) \o StoredList(hs, ls, h + 1)

InsertFailed(rq) == \E i \in 1..Len(rq.ins) : rq.ins[i] = "err"

\* C1: when an INSERT of a replace-activity-log on an existing habit fails,
\* the rows stored for that habit once the request is answered are exactly
\* the rows stored before the call.
C1_AllOrNothing ==
  (last.op = "replace" /\ last.alone /\ Existed(last) /\ InsertFailed(last))
    => BagOf(logs, last.id) = BagOf(last.pre.logs, last.id)

\* C2: a replace-activity-log answered 200 for an existing habit and dates D
\* leaves exactly one row per element of D for that habit, leaves the rows of
\* the other habits alone, and returns D sorted ascending as calendar days.
C2_ReplaceStoresExactly ==
  (last.op = "replace" /\ last.status = 200 /\ last.alone /\ Existed(last))
    => /\ logs = BagAdd(BagWithout(last.pre.logs, last.id), SeqBag(last.id, last.dates))
       /\ Len(last.body.rows) = 1
       /\ last.body.rows[1].activityLog = SortSeq(last.dates, Less)

\* C3: a replace-activity-log with a valid id that matches no habit is
\* answered 404 whatever the date sequence, and changes neither relation.
C3_ReplaceUnknownIs404 ==
  (last.op = "replace" /\ last.status # 400 /\ last.alone /\ last.hasDates /\ ~Existed(last))
    => /\ last.status = 404
       /\ habits = last.pre.habits
       /\ logs = last.pre.logs

\* C4: two overlapping replace-activity-log requests for the same existing
\* habit, both answered 200, leave the habit's rows equal to the dates of one
\* of the two requests.
C4_LastWriterWins ==
  (/\ last.op = "replace" /\ last.status = 200 /\ Existed(last)
   /\ last.peer.op = "replace" /\ last.peer.status = 200 /\ last.peer.id = last.id
   /\ nreq = 2)
    => \/ BagOf(logs, last.id) = SeqBag(last.id, last.dates)
       \/ BagOf(logs, last.id) = SeqBag(last.id, last.peer.dates)

\* a replace-activity-log whose BEGIN has completed and whose COMMIT or
\* ROLLBACK has not
MidReplace(o) ==
  /\ req[o].op = "replace"
  /\ req[o].pc \in {"deleteLogs", "inserts", "commit", "rollback"}
  /\ Existed(req[o])
  /\ AllDates(req[o].dates)

EntryOf(rows, h) == rows[CHOOSE i \in 1..Len(rows) : rows[i].id = h]

\* C5: a list answered while a replace-activity-log for habit h is between
\* BEGIN and COMMIT/ROLLBACK shows for h the complete old log or the complete
\* new log.
C5_NoPartialReplaceVisible ==
  \A o \in Slots :
    (last.op = "list" /\ last.status = 200 /\ nreq = 2 /\ MidReplace(o))
      => /\ \E i \in 1..Len(last.body.rows) : last.body.rows[i].id = req[o].id
         /\ \/ EntryOf(last.body.rows, req[o].id).activityLog = StoredLog(req[o].pre.logs, req[o].id)
            \/ EntryOf(last.body.rows, req[o].id).activityLog
                 = StoredLog(SeqBag(req[o].id, req[o].dates), req[o].id)

\* C6: a delete of an existing habit, with or without activity-log rows, is
\* answered 200 "Habit deleted successfully", and then neither the habit nor
\* any activity-log row with its id is stored.
C6_DeleteRemovesHabitAndLogs ==
  (last.op = "delete" /\ last.alone /\ Existed(last))
    => /\ last.status = 200
       /\ last.body.message = "Habit deleted successfully"
       /\ ~habits[last.id].present
       /\ BagSize(logs, last.id) = 0

\* C7: in every reachable state every stored activity-log row belongs to a
\* stored habit.
C7_ReferentialIntegrity ==
  \A k \in LogKeys : logs[k] > 0 => habits[k[1]].present

\* C8: a list answered 200 has one entry per stored habit in ascending id
\* order, each with the habit's stored dates ascending and without null (the
\* empty sequence for a habit without rows).
C8_ListShowsStore ==
  (last.op = "list" /\ last.status = 200)
    => last.body.rows = StoredList(habits, logs, 1)

\* C9: a create with a non-empty name is answered 201 with the new id, the
\* supplied name and color and an empty activityLog; the row is stored, and
\* nothing else changes.
C9_CreateAddsOneRow ==
  (last.op = "create" /\ last.name \notin {Undefined, Null, ""} /\ last.alone)
    => /\ last.status = 201
       /\ last.body.rows = <<[id |-> last.pre.nextId, name |-> last.name,
                             color |-> IF last.color = Undefined THEN Null ELSE last.color,
                             activityLog |-> <<>>]>>
       /\ habits = [last.pre.habits EXCEPT ![last.pre.nextId] =
                      Row(last.name, IF last.color = Undefined THEN Null ELSE last.color)]
       /\ logs = last.pre.logs

\* C10: a create whose name is absent or empty is answered 400 and inserts
\* nothing: both relations and the id sequence are as before the request.
C10_CreateWithoutNameIs400 ==
  (last.op = "create" /\ last.name \in {Undefined, ""})
    => /\ last.status = 400
       /\ habits = last.pre.habits
       /\ logs = last.pre.logs
       /\ nextId = last.pre.nextId

C10_Witness ==
  /\ last.op = "create"
  /\ last.name = ""
  /\ last.status = 400
  /\ \E h \in HabitIds : habits[h].present

C7_Witness ==
  /\ last.op = "delete"
  /\ last.status = 500
  /\ Existed(last)
  /\ BagSize(logs, last.id) > 0

ValidId(rq) == ~InvalidId(parseInt(rq.path))

\* C11: an update-fields with a valid id that matches no habit and with a name
\* or a color is answered 404, and changes neither relation.
C11_UpdateUnknownIs404 ==
  (/\ last.op = "update" /\ last.alone /\ ValidId(last) /\ ~Existed(last)
   /\ (last.name # Undefined \/ last.color # Undefined))
    => /\ last.status = 404
       /\ habits = last.pre.habits
       /\ logs = last.pre.logs

\* a field of the request, or the stored value where the request has none
Supplied(new, old) == IF new = Undefined THEN old ELSE new

\* C12: an update-fields answered 200 for an existing habit has set the
\* supplied fields and kept the others, has left the activity-log rows and
\* the other habits alone, and returns the habit as stored, with its dates
\* ascending and without null.
C12_UpdateChangesOnlySupplied ==
  (last.op = "update" /\ last.status = 200 /\ last.alone /\ Existed(last))
    => /\ habits = [last.pre.habits EXCEPT ![last.id] =
                      Row(Supplied(last.name, @.name), Supplied(last.color, @.color))]
       /\ logs = last.pre.logs
       /\ last.body.rows = <<[id |-> last.id, name |-> habits[last.id].name,
                              color |-> habits[last.id].color,
                              activityLog |-> StoredLog(logs, last.id)]>>

\* the path parameter is the decimal numeral of a positive integer
IsPositiveInteger(path) ==
  /\ path # <<>>
  /\ \A i \in 1..Len(path) : path[i] \in Digits
  /\ LeadingDigits(path, 0) > 0

TakesId(rq) == rq.op \in {"update", "replace", "delete"}

\* C13: an update-fields, replace-activity-log or delete whose id path
\* parameter is not a positive integer is answered 400, and both relations
\* are as before the request.
C13_BadIdIs400 ==
  (TakesId(last) /\ ~IsPositiveInteger(last.path))
    => /\ last.status = 400
       /\ habits = last.pre.habits
       /\ logs = last.pre.logs

\* a request the spec calls malformed: create without name, update with
\* neither name nor color, an id that is not a positive integer, a replace
\* whose body has no activityData
Malformed(rq) ==
  \/ rq.op = "create" /\ rq.name \in {Undefined, ""}
  \/ rq.op = "update" /\ rq.name = Undefined /\ rq.color = Undefined
  \/ TakesId(rq) /\ ~IsPositiveInteger(rq.path)
  \/ rq.op = "replace" /\ ~rq.hasDates

\* C14: a malformed request is answered 400 in the step in which it arrives,
\* a step that issues no statement (the pool is untouched) and changes no row.
C14_ValidationBeforeStore ==
  [][Malformed(last')
       => /\ last'.status = 400
          /\ nreq' = nreq + 1
          /\ UNCHANGED <<conn, idle, queue, habits, logs, nextId>>]_vars

\* C15: a delete that runs on its own for an existing habit is answered 200;
\* a later delete of the same id that runs on its own is answered 404 and
\* changes nothing.  (`deleted` is read before the step that answers.)
C15_DeleteTwice ==
  [][(last'.op = "delete" /\ last'.alone /\ last'.id \in HabitIds)
       => IF last'.id \in deleted
          THEN /\ last'.status = 404
               /\ habits' = habits
               /\ logs' = logs
          ELSE Existed(last') => last'.status = 200]_vars

\* C16: no handler ends without having sent its response, whichever store
\* statements fail, the ROLLBACK of replace-activity-log's catch block
\* included (a request whose handler has ended is never answered later).
C16_EveryRequestAnswered ==
  last.op # "none" => last.status \in {200, 201, 400, 404, 500}

\* what a response body carries when it passes the store's error message on
UnderlyingMessage == "err.message"

\* C17: every 500 answer, of whichever operation, carries the message of the
\* store error that caused it.
C17_ErrorMessagePassedThrough ==
  (last.op # "none" /\ last.status = 500) => last.body.message = UnderlyingMessage

\* C18: a replace-activity-log with the empty date sequence on an existing
\* habit is answered 200 with the empty activityLog, and leaves the habit
\* without rows.
C18_ReplaceByNothing ==
  (last.op = "replace" /\ last.alone /\ Existed(last) /\ last.hasDates /\ last.dates = <<>>)
    => /\ last.status = 200
       /\ Len(last.body.rows) = 1
       /\ last.body.rows[1].activityLog = <<>>
       /\ BagSize(logs, last.id) = 0

\* a statement of request r completes in this step
FinishesJobOf(r) ==
  \E c \in Clients : conn[c].st = "busy" /\ conn[c].job[1] = r /\ conn'[c].job # conn[c].job

\* C19: when a replace-activity-log that failed is answered 500, its ROLLBACK
\* has ended the transaction of its BEGIN (for the first request of a run no
\* pooled session is left inside a transaction), and no INSERT of it that
\* completes after the answer changes the stored rows.
C19_RollbackBeforeAnswer ==
  [][/\ (last'.op = "replace" /\ last'.status = 500 /\ nreq' = 1)
          => \A c \in Clients : conn'[c].txn = "none"
     /\ \A r \in Slots :
          (req[r].op = "replace" /\ req[r].pc = "done" /\ FinishesJobOf(r))
            => logs' = logs]_vars

\* C20: every stored habit has a non-empty name.
C20_NamesNonEmpty ==
  \A h \in HabitIds : habits[h].present => habits[h].name \notin {"", Null, Undefined}

\* C21: once a delete of h has been answered 200, no update-fields,
\* replace-activity-log or delete on h is answered 200, no list answer has an
\* entry for h, and no activity-log row of h is stored.  (`deleted` is read
\* before the step, so it holds the deletes answered earlier.)
C21_DeletedIsTerminal ==
  [][/\ (TakesId(last') /\ last'.id \in deleted) => last'.status # 200
     /\ (last'.op = "list" /\ last'.status = 200)
          => \A i \in 1..Len(last'.body.rows) : last'.body.rows[i].id \notin deleted
     /\ \A h \in deleted : BagSize(logs', h) = 0]_vars

\* C22: an update-fields answered 200 shows every supplied field with the
\* supplied value in its response body, and an update-fields answered 404
\* has changed no row with its UPDATE, whatever other requests run meanwhile.
C22_UpdateIsAtomic ==
  /\ (last.op = "update" /\ last.status = 200)
       => /\ Len(last.body.rows) = 1
          /\ last.name # Undefined => last.body.rows[1].name = last.name
          /\ last.color # Undefined => last.body.rows[1].color = last.color
  /\ (last.op = "update" /\ last.status = 404) => last.rowCount = 0

====
